---- MODULE Spec2Model ----
(***************************************************************************)
(* Model of CM.py: load (file-format dispatching loader), plot (renderer)  *)
(* and the four drawing helpers _add_maxima_markers,                       *)
(* _add_fraction_highlighting, _add_fraction_markers, _add_secondary_axes. *)
(*                                                                         *)
(* Text that the code builds by formatting (fraction labels, tick texts,   *)
(* annotations) is a sequence of one-character strings, so that str(),     *)
(* f-strings and strip() are computed.  Enumerated option values and       *)
(* exception names are plain strings.  Numbers are fixed-point: Scale      *)
(* units make 1.0, every trace value is a multiple of 0.25.                *)
(***************************************************************************)
EXTENDS Integers, Sequences, FiniteSets, TLC

VARIABLES trace, df, call, stdout, fig, written
vars == <<trace, df, call, stdout, fig, written>>

----------------------------------------------------------------------------
(* Bounds *)
MaxRows == 2       \* rows in a trace
MaxFrac == 2       \* largest fraction number a caller passes
MaxList == 2       \* longest fractions / del_fraction_markings list

(* Fixed-point unit and the missing-value markers *)
Scale == 100 * 100
NaN == 0 - 1                   \* float nan in a numeric column
NaNLabel == <<"nan-float">>    \* float nan in the Fraction column: equal to no str
None == "None"

----------------------------------------------------------------------------
(* Sequence helpers *)
RECURSIVE SeqMax(_)
SeqMax(s) == IF Len(s) = 1 THEN s[1]
             ELSE LET m == SeqMax(Tail(s)) IN IF s[1] > m THEN s[1] ELSE m

RECURSIVE SeqMin(_)
SeqMin(s) == IF Len(s) = 1 THEN s[1]
             ELSE LET m == SeqMin(Tail(s)) IN IF s[1] < m THEN s[1] ELSE m

Column(data, f) == [i \in 1..Len(data) |-> data[i][f]]

SeqsUpTo(S, n) == UNION {[1..k -> S] : k \in 0..n}

InSeq(x, s) == \E i \in 1..Len(s) : s[i] = x

(* str(n) for a non-negative int *)
Digit == <<"0", "1", "2", "3", "4", "5", "6", "7", "8", "9">>

RECURSIVE Str(_)
Str(n) == IF n < 10 THEN <<Digit[n + 1]>>
          ELSE Str(n \div 10) \o <<Digit[(n % 10) + 1]>>

(* f'{x:.1f}' of a non-negative float: correctly rounded, ties to even
   (every value here is a binary fraction, so ties are exact) *)
Fmt1(x) ==
  LET unit == Scale \div 10
      q == x \div unit
      r == x % unit
      t == IF 2 * r > unit THEN q + 1
           ELSE IF 2 * r < unit THEN q
           ELSE IF q % 2 = 0 THEN q ELSE q + 1
  IN Str(t \div 10) \o <<".">> \o Str(t % 10)

(* s.strip('""'): drop double quotes from both ends *)
RECURSIVE LStrip(_)
LStrip(s) == IF s # <<>> /\ s[1] = "\"" THEN LStrip(Tail(s)) ELSE s

RECURSIVE RStrip(_)
RStrip(s) == IF s # <<>> /\ s[Len(s)] = "\""
             THEN RStrip(SubSeq(s, 1, Len(s) - 1)) ELSE s

Strip(s) == RStrip(LStrip(s))

(* {**defaults, **kwargs} *)
Merge(defaults, kwargs) ==
  [k \in DOMAIN defaults \cup DOMAIN kwargs |->
     IF k \in DOMAIN kwargs THEN kwargs[k] ELSE defaults[k]]

----------------------------------------------------------------------------
(* The trace: one record per measurement row *)
Quarter == Scale \div 4

Labels == { <<"T", "1">>, <<"T", "2">>, <<"1">>, <<"2">>,
            <<"W", "a", "s", "t", "e">>, <<"F", "r", "a", "c">> }

(* the (Fraction_vol, Fraction) cells of a row: sparse, so mostly missing *)
FracCells == {[vol |-> NaN, label |-> NaNLabel]}
             \cup {[vol |-> 0, label |-> l] : l \in Labels}
             \cup {[vol |-> NaN, label |-> <<"T", "1">>],
                   [vol |-> 0, label |-> NaNLabel]}

(* numeric columns of row i: volume rises, one UV bump in the second row *)
Row(i, cell) ==
  [Volume_ml |-> i * 5 * Quarter,
   mAU |-> IF i = 2 THEN 7 * Quarter ELSE i * Quarter,
   Volume_grad |-> i * 5 * Quarter,
   Gradient_percentB |-> i * 100 * Quarter,
   Fraction_vol |-> IF cell.vol = NaN THEN NaN ELSE i * 5 * Quarter,
   Fraction |-> cell.label,
   Cond |-> (i + 1) * 3 * Quarter]

Traces == UNION {{[i \in 1..n |-> Row(i, cells[i])] : cells \in [1..n -> FracCells]}
                 : n \in 1..MaxRows}

----------------------------------------------------------------------------
(* The figure: what the drawing calls have put on it so far *)
NewFig ==
  [xlim |-> <<0, Scale>>, ylim |-> <<0, Scale>>,   \* a fresh Axes spans 0..1
   uv |-> <<>>,            \* lines on the primary axis
   markers |-> <<>>,       \* peak markers
   annotations |-> <<>>,   \* peak annotations
   spans |-> <<>>,         \* shaded fraction bands
   bandtexts |-> <<>>,     \* band labels
   ticks |-> <<>>,         \* fraction tick markers
   ticktexts |-> <<>>,     \* fraction tick labels
   axes |-> <<>>,          \* secondary axes
   title |-> "",
   legend |-> <<>>,        \* labels of the combined legend
   created |-> TRUE]

NoFig == [NewFig EXCEPT !.created = FALSE]

UVLabel == "UV Absorption (mAU)"
BufferLabel == "Buffer B (%)"
CondLabel == "Conductivity (mS/cm)"

(* plot's defaults dict; x is the value its 'x_lim' entry evaluates to *)
Defaults(x) ==
  [title |-> "", fractions |-> <<>>, fraction_text |-> (7 * Scale) \div 10,
   del_fraction_markings |-> <<>>,
   uv_color |-> "#1f77b4", conductivity_color |-> "#d68924",
   buffer_color |-> "#2ca02c", marker_color |-> "#dc143c",
   mark_maxima |-> FALSE, maxima_type |-> "mL",
   maxima_threshold |-> 50, max_width |-> 10000,
   salt |-> FALSE, buffer |-> FALSE,
   output_datatype |-> "svg", figsize |-> <<12, 7>>, x_lim |-> x]

(* the keys the warning loop of plot accepts silently *)
KnownKeys == {"title", "fractions", "del_fraction_markings", "uv_color",
              "conductivity_color", "buffer_color", "marker_color",
              "mark_maxima", "maxima_threshold", "maxima_type", "max_width",
              "salt", "buffer", "output_datatype", "figsize", "fraction_text"}

----------------------------------------------------------------------------
(* _add_maxima_markers: peaks is what find_peaks returned, 0-based row
   positions in increasing order *)
AnnotationText(config, max_x, max_y) ==
  IF config.maxima_type = "mL" THEN Fmt1(max_x) \o <<" ", "m", "L">>
  ELSE IF config.maxima_type = "mAU" THEN Fmt1(max_y) \o <<" ", "m", "A", "U">>
  ELSE Fmt1(max_x) \o <<" ", "m", "L">>

RECURSIVE _add_maxima_markers(_, _, _, _)
_add_maxima_markers(ax, data, config, peaks) ==
  IF peaks = <<>> THEN ax
  ELSE LET peak == Head(peaks)
           max_x == data[peak + 1].Volume_ml
           max_y == data[peak + 1].mAU
           drawn == [ax EXCEPT
                      !.markers = Append(@, [x |-> max_x, y |-> max_y,
                                             color |-> config.marker_color]),
                      !.annotations = Append(@,
                         [text |-> AnnotationText(config, max_x, max_y),
                          xy |-> <<max_x, max_y>>,
                          color |-> config.marker_color])]
       IN _add_maxima_markers(drawn, data, config, Tail(peaks))

----------------------------------------------------------------------------
(* _add_fraction_highlighting; ax is [fig, exc]: the figure drawn on and the
   exception raised so far (None while running) *)

(* data[data['Fraction'] == label]['Fraction_vol'] *)
FractionVols(data, label) ==
  LET RECURSIVE Pick(_)
      Pick(i) == IF i > Len(data) THEN <<>>
                 ELSE IF data[i].Fraction = label
                      THEN <<data[i].Fraction_vol>> \o Pick(i + 1)
                      ELSE Pick(i + 1)
  IN Pick(1)

(* faulty variant: the "T" prefix of the small variant forgotten *)
FractionLabelNoPrefix(akta_type, number) == Str(number)

(* the label a fraction number is looked up by *)
FractionLabel(akta_type, number) ==
  IF akta_type = "small" THEN <<"T">> \o Str(number) ELSE Str(number)

BandDrawn(vol_lower, vol_higher) == vol_lower # <<>> /\ vol_higher # <<>>

Middle(a, b) == IF a = NaN \/ b = NaN THEN NaN ELSE (a + b) \div 2

RECURSIVE _add_fraction_highlighting(_, _, _, _)
_add_fraction_highlighting(ax, data, config, akta_type) ==
  IF ax.exc # None \/ config.fractions = <<>> THEN ax
  ELSE
    LET frac == Head(config.fractions)
        rest == [config EXCEPT !.fractions = Tail(@)]
    IN IF akta_type \notin {"small", "large"}
       THEN \* neither branch binds vol_lower: the test at line 185 reads it unbound
            [ax EXCEPT !.exc = "UnboundLocalError"]
       ELSE
         LET vol_lower == FractionVols(data, FractionLabel(akta_type, frac))
             vol_higher == FractionVols(data, FractionLabel(akta_type, frac + 1))
             middle == Middle(vol_lower[1], vol_higher[1])
             drawn ==
               IF BandDrawn(vol_lower, vol_higher)
               THEN [ax EXCEPT
                      !.fig.spans = Append(@, <<vol_lower[1], vol_higher[1]>>),
                      !.fig.bandtexts = Append(@,
                         [x |-> middle,
                          y |-> (ax.fig.ylim[2] * config.fraction_text) \div Scale,
                          s |-> <<"F">> \o Str(frac)])]
               ELSE ax
         IN _add_fraction_highlighting(drawn, data, rest, akta_type)

----------------------------------------------------------------------------
(* _add_fraction_markers *)
RECURSIVE DelFractions(_, _)
DelFractions(del_fraction_markings, akta_type) ==
  IF del_fraction_markings = <<>> THEN <<>>
  ELSE LET string == Str(Head(del_fraction_markings))
           rest == DelFractions(Tail(del_fraction_markings), akta_type)
       IN IF akta_type = "small" THEN <<(<<"T">> \o string)>> \o rest
          ELSE IF akta_type = "large" THEN <<string>> \o rest
          ELSE rest

Reserved == << <<"W", "a", "s", "t", "e">>, <<"F", "r", "a", "c">> >>

(* faulty variant: the reserved labels are not filtered *)
MarkerDrawnReserved(vol, frac, del_fractions) ==
  /\ vol # NaN
  /\ frac # NaNLabel
  /\ ~InSeq(frac, del_fractions)

MarkerDrawn(vol, frac, del_fractions) ==
  /\ vol # NaN
  /\ frac # NaNLabel
  /\ ~InSeq(frac, del_fractions)
  /\ ~InSeq(frac, Reserved)

_add_fraction_markers(ax, data, del_fraction_markings, akta_type, y_limmin, y_lim) ==
  LET y_pos == y_limmin + ((y_lim - y_limmin) * 4) \div 100
      del_fractions == DelFractions(del_fraction_markings, akta_type)
      RECURSIVE Rows(_, _)
      Rows(i, a) ==
        IF i > Len(data) THEN a
        ELSE LET vol == data[i].Fraction_vol
                 frac == data[i].Fraction
             IN IF MarkerDrawn(vol, frac, del_fractions)
                THEN Rows(i + 1, [a EXCEPT
                       !.ticks = Append(@, vol),
                       !.ticktexts = Append(@, [x |-> vol, y |-> y_pos,
                                                s |-> Strip(frac)])])
                ELSE Rows(i + 1, a)
  IN Rows(1, ax)

----------------------------------------------------------------------------
(* _add_secondary_axes: the figure with the new axes, and the returned lines *)
BufferAxis == [ylabel |-> BufferLabel, ylim |-> <<0, 105 * Scale>>,
               line |-> BufferLabel, x |-> "Volume_grad",
               y |-> "Gradient_percentB", linestyle |-> "--", outward |-> 0]

CondAxis(data, outward) ==
  LET m == SeqMax(Column(data, "Cond"))
  IN [ylabel |-> CondLabel, ylim |-> <<0, m + (m * 2) \div 10>>,
      line |-> CondLabel, x |-> "Volume_ml", y |-> "Cond",
      linestyle |-> "-", outward |-> outward]

(* faulty variant: with both overlays the conductivity axis is made first *)
SecondaryAxesCondFirst(data, config) ==
  IF config.buffer /\ ~config.salt THEN <<BufferAxis>>
  ELSE IF config.salt /\ ~config.buffer THEN <<CondAxis(data, 0)>>
  ELSE IF config.buffer /\ config.salt THEN <<CondAxis(data, 60), BufferAxis>>
  ELSE <<>>

SecondaryAxes(data, config) ==
  LET show_buffer == config.buffer
      show_salt == config.salt
  IN IF show_buffer /\ ~show_salt THEN <<BufferAxis>>
     ELSE IF show_salt /\ ~show_buffer THEN <<CondAxis(data, 0)>>
     ELSE IF show_buffer /\ show_salt THEN <<BufferAxis, CondAxis(data, 60)>>
     ELSE <<>>

_add_secondary_axes(ax1, data, config) ==
  LET new == SecondaryAxes(data, config)
  IN [fig |-> [ax1 EXCEPT !.axes = @ \o new],
      additional_lines |-> [i \in 1..Len(new) |-> new[i].line]]

----------------------------------------------------------------------------
(* Files.  A line is its cells and the delimiter that separates them; a file
   is its encoding and its lines.  Every export starts with three header
   lines. *)
SkipRows == 3
NCols == 12

RawRow(r) == <<r.Volume_ml, r.mAU, 0, r.Cond, r.Volume_grad, r.Gradient_percentB,
               0, 0, 0, 0, r.Fraction_vol, r.Fraction>>

FileOf(tr, sep, encoding) ==
  [encoding |-> encoding,
   lines |-> [i \in 1..3 |-> [sep |-> sep, cells |-> <<"header">>]]
             \o [i \in 1..Len(tr) |-> [sep |-> sep, cells |-> RawRow(tr[i])]]]

(* the well-formed fixture files of the three variants, all of the same trace *)
Files(tr) ==
  [path \in {"small.csv", "small_asc.asc", "large.csv"} |->
     IF path = "small.csv" THEN FileOf(tr, ",", "utf_8")
     ELSE IF path = "small_asc.asc" THEN FileOf(tr, "\t", "utf_8")
     ELSE FileOf(tr, "\t", "utf_16")]

Names == {"small", "small_asc", "large", "absent"}

(* pd.read_csv(path, sep=, encoding=, skiprows=, header=None) *)
SplitLine(line, sep) == IF line.sep = sep THEN line.cells ELSE <<line.cells>>

read_csv(fs, p) ==
  IF p.path \notin DOMAIN fs THEN [exc |-> "FileNotFoundError", rows |-> <<>>]
  ELSE IF fs[p.path].encoding # p.encoding THEN [exc |-> "UnicodeError", rows |-> <<>>]
  ELSE LET lines == fs[p.path].lines
       IN [exc |-> None,
           rows |-> [i \in 1..(Len(lines) - p.skiprows) |->
                       SplitLine(lines[i + p.skiprows], p.sep)]]

----------------------------------------------------------------------------
(* Keyword arguments: the pairs <<key, value>> in the order the caller wrote *)
KwKeys(kwargs) == {kwargs[i][1] : i \in 1..Len(kwargs)}

KwDict(kwargs) ==
  [k \in KwKeys(kwargs) |->
     kwargs[CHOOSE i \in 1..Len(kwargs) : kwargs[i][1] = k][2]]

----------------------------------------------------------------------------
(* load *)
LoadDefaults == [small_akta_filetype |-> "csv"]

ReadParams(path, sep, encoding) ==
  [path |-> path, sep |-> sep, encoding |-> encoding,
   skiprows |-> SkipRows, header |-> None]

(* faulty variant: the asc export read with the csv delimiter *)
LoadReadsAscComma(name, akta_type, config) ==
  IF akta_type = "small"
  THEN IF config.small_akta_filetype = "csv"
       THEN <<ReadParams(name \o ".csv", ",", "utf_8")>>
       ELSE IF config.small_akta_filetype = "asc"
            THEN <<ReadParams(name \o ".asc", ",", "utf_8")>>
            ELSE <<>>
  ELSE IF akta_type = "large"
       THEN <<ReadParams(name \o ".csv", "\t", "utf_16")>>
       ELSE <<>>

(* the read_csv calls load makes: one, or none when it only warns *)
LoadReads(name, akta_type, config) ==
  IF akta_type = "small"
  THEN IF config.small_akta_filetype = "csv"
       THEN <<ReadParams(name \o ".csv", ",", "utf_8")>>
       ELSE IF config.small_akta_filetype = "asc"
            THEN <<ReadParams(name \o ".asc", "\t", "utf_8")>>
            ELSE <<>>
  ELSE IF akta_type = "large"
       THEN <<ReadParams(name \o ".csv", "\t", "utf_16")>>
       ELSE <<>>

LoadPrints(akta_type, config) ==
  IF akta_type = "small"
  THEN IF config.small_akta_filetype \in {"csv", "asc"} THEN <<>>
       ELSE <<"please enter 'csv' or 'asc' for small_akta_filetype">>
  ELSE IF akta_type = "large" THEN <<>>
       ELSE <<"please enter 'large' or 'small' for akta_type">>

(* the local data is bound only by a read; return data reads it *)
load(fs, name, akta_type, kwargs) ==
  LET config == Merge(LoadDefaults, KwDict(kwargs))
      reads == LoadReads(name, akta_type, config)
      prints == LoadPrints(akta_type, config)
      r == read_csv(fs, reads[1])
  IN IF reads = <<>>
     THEN [exc |-> "UnboundLocalError", ret |-> <<>>, reads |-> reads, stdout |-> prints]
     ELSE IF r.exc # None
          THEN [exc |-> r.exc, ret |-> <<>>, reads |-> reads, stdout |-> prints]
          ELSE [exc |-> None, ret |-> r.rows, reads |-> reads, stdout |-> prints]

----------------------------------------------------------------------------
(* plot.  The body runs statement by statement; a statement first resolves
   the names it reads.  A name the function assigns anywhere is a local of
   the function: reading it before it is bound raises UnboundLocalError.
   Any other name is looked up in the module's globals and the builtins:
   NameError when it is in neither. *)
PlotParams == {"name", "input_data", "akta_type", "kwargs"}

PlotAssigned == {"defaults", "key", "config", "data", "fig", "ax1", "uv_line",
                 "y_lim", "y_limmin", "lines", "labels"}

PlotLocals == PlotParams \cup PlotAssigned

(* the module's global names, each bound to the object it names *)
ModuleGlobals ==
  [n \in {"pd", "plt", "find_peaks", "plot", "_add_maxima_markers",
          "_add_fraction_highlighting", "_add_fraction_markers",
          "_add_secondary_axes", "load"} |-> n]

Builtins == {"print"}

(* the statements of plot: first source line, names read, names bound *)
PlotStmts ==
  << [line |-> 57,  reads |-> {"data"},                       writes |-> {"defaults"}],
     [line |-> 76,  reads |-> {"kwargs", "print"},            writes |-> {"key"}],
     [line |-> 80,  reads |-> {"defaults", "kwargs"},         writes |-> {"config"}],
     [line |-> 83,  reads |-> {"pd", "input_data"},           writes |-> {"data"}],
     [line |-> 94,  reads |-> {"plt", "config"},              writes |-> {"fig", "ax1"}],
     [line |-> 97,  reads |-> {"ax1", "data", "config"},      writes |-> {"uv_line"}],
     [line |-> 103, reads |-> {"ax1", "config"},              writes |-> {}],
     [line |-> 109, reads |-> {"data"},                       writes |-> {"y_lim"}],
     [line |-> 110, reads |-> {"data", "y_lim"},              writes |-> {"y_limmin"}],
     [line |-> 112, reads |-> {"ax1", "x_lim"},               writes |-> {}],
     [line |-> 113, reads |-> {"ax1", "y_limmin", "y_lim"},   writes |-> {}],
     [line |-> 116, reads |-> {"config", "_add_maxima_markers", "ax1", "data"},
                    writes |-> {}],
     [line |-> 120, reads |-> {"_add_fraction_highlighting", "ax1", "data",
                               "config", "akta_type"},
                    writes |-> {}],
     [line |-> 123, reads |-> {"_add_fraction_markers", "ax1", "data", "config",
                               "akta_type", "y_limmin", "y_lim"},
                    writes |-> {}],
     [line |-> 126, reads |-> {"ax1", "config"},              writes |-> {}],
     [line |-> 129, reads |-> {"uv_line", "_add_secondary_axes", "ax1", "data",
                               "config"},
                    writes |-> {"lines"}],
     [line |-> 133, reads |-> {"lines", "ax1"},               writes |-> {"labels"}],
     [line |-> 138, reads |-> {"plt", "name", "config"},      writes |-> {}] >>

(* the exception resolving the names of a statement raises, None if none:
   the dict display of line 57 evaluates data["Volume_ml"] first of all *)
Resolve(reads, bound) ==
  IF \E n \in reads : n \in PlotLocals /\ n \notin bound THEN "UnboundLocalError"
  ELSE IF \E n \in reads : n \notin PlotLocals
                          /\ n \notin DOMAIN ModuleGlobals \cup Builtins
       THEN "NameError"
       ELSE None

(* pd.DataFrame({...: input_data.iloc[:, k]}) *)
PrepareData(input_data) ==
  [i \in 1..Len(input_data) |->
     [Volume_ml |-> input_data[i][1], mAU |-> input_data[i][2],
      Volume_grad |-> input_data[i][5], Gradient_percentB |-> input_data[i][6],
      Fraction_vol |-> input_data[i][11], Fraction |-> input_data[i][12],
      Cond |-> input_data[i][4]]]

HasColumns(input_data) == \A i \in 1..Len(input_data) : Len(input_data[i]) >= NCols

(* the warnings of the loop over kwargs.keys() *)
Warning(key) == "Warning: you might have misspelled the variable: " \o key
                \o ". Which means the default parameter was used"

RECURSIVE Warnings(_)
Warnings(kwargs) ==
  IF kwargs = <<>> THEN <<>>
  ELSE (IF kwargs[1][1] \notin KnownKeys THEN <<Warning(kwargs[1][1])>> ELSE <<>>)
       \o Warnings(Tail(kwargs))

(* data["mAU"].iloc[100:].min(): nan when the slice is empty *)
YMinSkip == 100

TailMin(data) ==
  IF Len(data) > YMinSkip
  THEN SeqMin(SubSeq(Column(data, "mAU"), YMinSkip + 1, Len(data)))
  ELSE NaN

(* the state of a running call of plot *)
PlotEntry(name, input_data, akta_type, kwargs, peaks) ==
  [name |-> name, input_data |-> input_data, akta_type |-> akta_type,
   kwargs |-> kwargs, peaks |-> peaks,
   bound |-> PlotParams, exc |-> None, at |-> 0, stdout |-> <<>>,
   configured |-> FALSE, config |-> <<>>, defaults |-> <<>>, data |-> <<>>,
   fig |-> NoFig, y_lim |-> NaN, y_limmin |-> NaN,
   lines |-> <<>>, saved |-> {}]

(* the effect of statement i, its names resolved *)
PlotStep(i, st) ==
  CASE i = 1 -> [st EXCEPT !.defaults =
                    Defaults(SeqMax(Column(st.data, "Volume_ml")))]
    [] i = 2 -> [st EXCEPT !.stdout = @ \o Warnings(st.kwargs)]
    [] i = 3 -> [st EXCEPT !.config = Merge(st.defaults, KwDict(st.kwargs)),
                           !.configured = TRUE]
    [] i = 4 -> IF HasColumns(st.input_data)
                THEN [st EXCEPT !.data = PrepareData(st.input_data)]
                ELSE [st EXCEPT !.exc = "IndexError"]
    [] i = 5 -> [st EXCEPT !.fig = NewFig]
    [] i = 6 -> [st EXCEPT !.fig.uv = Append(@,
                    [label |-> UVLabel, color |-> st.config.uv_color])]
    [] i = 7 -> st
    [] i = 8 -> LET m == SeqMax(Column(st.data, "mAU"))
                IN [st EXCEPT !.y_lim = m + (m * 2) \div 10]
    [] i = 9 -> LET m == TailMin(st.data)
                IN [st EXCEPT !.y_limmin =
                      IF m = NaN THEN NaN ELSE m - (st.y_lim * 2) \div 100]
    [] i = 10 -> [st EXCEPT !.fig.xlim = <<0, ModuleGlobals["x_lim"]>>]
    [] i = 11 -> IF st.y_limmin = NaN
                 THEN [st EXCEPT !.exc = "ValueError"]
                 ELSE [st EXCEPT !.fig.ylim = <<st.y_limmin, st.y_lim>>]
    [] i = 12 -> IF st.config.mark_maxima
                 THEN [st EXCEPT !.fig =
                         _add_maxima_markers(@, st.data, st.config, st.peaks)]
                 ELSE st
    [] i = 13 -> LET r == _add_fraction_highlighting(
                            [fig |-> st.fig, exc |-> None], st.data, st.config,
                            st.akta_type)
                 IN [st EXCEPT !.fig = r.fig, !.exc = r.exc]
    [] i = 14 -> [st EXCEPT !.fig =
                    _add_fraction_markers(@, st.data,
                       st.config.del_fraction_markings, st.akta_type,
                       st.y_limmin, st.y_lim)]
    [] i = 15 -> [st EXCEPT !.fig.title = st.config.title]
    [] i = 16 -> LET r == _add_secondary_axes(st.fig, st.data, st.config)
                 IN [st EXCEPT !.fig = r.fig,
                               !.lines = <<UVLabel>> \o r.additional_lines]
    [] i = 17 -> [st EXCEPT !.fig.legend = st.lines]
    [] OTHER  -> [st EXCEPT !.saved =
                    {st.name \o "." \o st.config.output_datatype}]

RECURSIVE PlotExec(_, _)
PlotExec(i, st) ==
  IF i > Len(PlotStmts) \/ st.exc # None THEN st
  ELSE LET e == Resolve(PlotStmts[i].reads, st.bound)
       IN IF e # None
          THEN [st EXCEPT !.exc = e, !.at = PlotStmts[i].line]
          ELSE LET done == PlotStep(i, st)
               IN PlotExec(i + 1,
                    [done EXCEPT !.bound = @ \cup PlotStmts[i].writes,
                                 !.at = PlotStmts[i].line])

plot(name, input_data, akta_type, kwargs, peaks) ==
  PlotExec(1, PlotEntry(name, input_data, akta_type, kwargs, peaks))

----------------------------------------------------------------------------
(* The calls a user of the module makes.  No function of the module writes a
   module-level name or keeps anything between calls, so a run is one call
   on a fresh figure, or load followed by plot on the frame it returned. *)
AktaTypes == {"small", "large", "medium"}

FileTypes == {"csv", "asc", "txt"}

LoadKwargs == {<<>>}
              \cup {<< <<"small_akta_filetype", t>> >> : t \in FileTypes}
              \cup {<< <<"small_akta_filetype", t>>, <<"verbose", TRUE>> >> : t \in {"asc"}}

PlotKwargs ==
  { <<>>,
    << <<"buffer", TRUE>> >>,
    << <<"salt", TRUE>> >>,
    << <<"buffer", TRUE>>, <<"salt", TRUE>> >>,
    << <<"mark_maxima", TRUE>> >>,
    << <<"mark_maxima", TRUE>>, <<"maxima_type", "mAU">> >>,
    << <<"x_lim", 2 * Scale>> >>,
    << <<"colour", "red">> >>,
    << <<"colour", "red">>, <<"buffer", TRUE>> >>,
    << <<"fractions", <<1>> >>, <<"output_datatype", "png">> >> }

(* what find_peaks may return for n rows: increasing 0-based positions *)
PeakSets(n) == {p \in SeqsUpTo(0..(n - 1), n) :
                  \A i \in 1..(Len(p) - 1) : p[i] < p[i + 1]}

FracLists == SeqsUpTo(1..MaxFrac, MaxList)

NoCall == [fn |-> "none", name |-> "", akta_type |-> "", kwargs |-> <<>>,
           peaks |-> <<>>, exc |-> None, at |-> 0, reads |-> <<>>,
           configured |-> FALSE, config |-> <<>>, lines |-> <<>>]

(* the configuration a direct call of a helper is given *)
HelperConfig(data, kwargs) ==
  Merge(Defaults(SeqMax(Column(data, "Volume_ml"))), KwDict(kwargs))

Init ==
  /\ trace \in Traces
  /\ df = [loaded |-> FALSE, rows |-> <<>>]
  /\ call = NoCall
  /\ stdout = <<>>
  /\ fig = NoFig
  /\ written = {}

(* data = load(name, akta_type, **kwargs) *)
Load ==
  /\ call.fn = "none"
  /\ \E name \in Names, akta_type \in AktaTypes, kwargs \in LoadKwargs :
    LET r == load(Files(trace), name, akta_type, kwargs)
    IN /\ call' = [NoCall EXCEPT !.fn = "load", !.name = name,
                     !.akta_type = akta_type, !.kwargs = kwargs,
                     !.exc = r.exc, !.reads = r.reads]
       /\ stdout' = r.stdout
       /\ df' = IF r.exc = None THEN [loaded |-> TRUE, rows |-> r.ret] ELSE df
       /\ UNCHANGED <<trace, fig, written>>

(* plot(name, data, akta_type, **kwargs) on a loaded frame *)
Plot ==
  /\ call.fn = "load"
  /\ df.loaded
  /\ \E akta_type \in {"small", "large"}, kwargs \in PlotKwargs :
     \E peaks \in IF "mark_maxima" \in KwKeys(kwargs)
                  THEN PeakSets(Len(df.rows)) ELSE {<<>>} :
       LET st == plot("out", df.rows, akta_type, kwargs, peaks)
       IN /\ call' = [NoCall EXCEPT !.fn = "plot", !.name = "out",
                        !.akta_type = akta_type, !.kwargs = kwargs,
                        !.peaks = peaks, !.exc = st.exc, !.at = st.at,
                        !.configured = st.configured, !.config = st.config,
                        !.lines = st.lines]
          /\ stdout' = st.stdout
          /\ fig' = st.fig
          /\ written' = written \cup st.saved
          /\ UNCHANGED <<trace, df>>

(* _add_maxima_markers(ax, data, config) on a fresh axes *)
CallMaximaMarkers ==
  /\ call.fn = "none"
  /\ \E peaks \in PeakSets(Len(trace)), maxima_type \in {"mL", "mAU", "s"} :
    LET kwargs == << <<"maxima_type", maxima_type>> >>
        config == HelperConfig(trace, kwargs)
    IN /\ fig' = _add_maxima_markers(NewFig, trace, config, peaks)
       /\ call' = [NoCall EXCEPT !.fn = "_add_maxima_markers", !.kwargs = kwargs,
                     !.peaks = peaks, !.configured = TRUE, !.config = config]
       /\ stdout' = <<>>
       /\ UNCHANGED <<trace, df, written>>

(* _add_fraction_highlighting(ax, data, config, akta_type) on a fresh axes *)
CallFractionHighlighting ==
  /\ call.fn = "none"
  /\ \E fractions \in FracLists, akta_type \in AktaTypes :
    LET kwargs == << <<"fractions", fractions>> >>
        config == HelperConfig(trace, kwargs)
        r == _add_fraction_highlighting([fig |-> NewFig, exc |-> None], trace,
                                        config, akta_type)
    IN /\ fig' = r.fig
       /\ call' = [NoCall EXCEPT !.fn = "_add_fraction_highlighting",
                     !.akta_type = akta_type, !.kwargs = kwargs, !.exc = r.exc,
                     !.configured = TRUE, !.config = config]
       /\ stdout' = <<>>
       /\ UNCHANGED <<trace, df, written>>

(* _add_fraction_markers(ax, data, del_fraction_markings, akta_type,
   y_limmin, y_lim) on a fresh axes, with that axes' y range *)
CallFractionMarkers ==
  /\ call.fn = "none"
  /\ \E del_fraction_markings \in FracLists, akta_type \in AktaTypes :
    LET kwargs == << <<"del_fraction_markings", del_fraction_markings>> >>
        config == HelperConfig(trace, kwargs)
    IN /\ fig' = _add_fraction_markers(NewFig, trace, del_fraction_markings,
                                       akta_type, NewFig.ylim[1], NewFig.ylim[2])
       /\ call' = [NoCall EXCEPT !.fn = "_add_fraction_markers",
                     !.akta_type = akta_type, !.kwargs = kwargs,
                     !.configured = TRUE, !.config = config]
       /\ stdout' = <<>>
       /\ UNCHANGED <<trace, df, written>>

(* _add_secondary_axes(ax1, data, config) on a fresh axes *)
CallSecondaryAxes ==
  /\ call.fn = "none"
  /\ \E buffer \in BOOLEAN, salt \in BOOLEAN :
    LET kwargs == << <<"buffer", buffer>>, <<"salt", salt>> >>
        config == HelperConfig(trace, kwargs)
        r == _add_secondary_axes(NewFig, trace, config)
    IN /\ fig' = r.fig
       /\ call' = [NoCall EXCEPT !.fn = "_add_secondary_axes", !.kwargs = kwargs,
                     !.configured = TRUE, !.config = config,
                     !.lines = r.additional_lines]
       /\ stdout' = <<>>
       /\ UNCHANGED <<trace, df, written>>

Next ==
  \/ Load
  \/ Plot
  \/ CallMaximaMarkers
  \/ CallFractionHighlighting
  \/ CallFractionMarkers
  \/ CallSecondaryAxes

Spec == Init /\ [][Next]_vars

----------------------------------------------------------------------------
(* Properties.  The arguments of the latest call are read back from call. *)
HasKw(key) == \E i \in 1..Len(call.kwargs) : call.kwargs[i][1] = key

KwValue(key) ==
  call.kwargs[CHOOSE i \in 1..Len(call.kwargs) : call.kwargs[i][1] = key][2]

Flag(key) == HasKw(key) /\ KwValue(key) = TRUE

MaxVolume == SeqMax(Column(trace, "Volume_ml"))

Count(s, x) == Cardinality({i \in 1..Len(s) : s[i] = x})

(* C1: load on a well-formed file of any variant, then plot with minimal
   configuration, returns without raising and writes out.svg *)
C1_RoundTrip ==
  (call.fn = "plot" /\ call.kwargs = <<>>)
    => (call.exc = None /\ "out.svg" \in written)

(* C2: _add_fraction_highlighting draws, for each fraction f of the list and
   akta_type small or large, one band labelled F{f} per occurrence of f when
   the trace has a row labelled f and a row labelled f+1 in the variant's
   format, and none otherwise; it raises nothing and every fraction of the
   list is processed, wherever a skipped one stands *)
VariantLabel(number) ==
  IF call.akta_type = "small" THEN <<"T">> \o Str(number) ELSE Str(number)

HasRow(label) == \E i \in 1..Len(trace) : trace[i].Fraction = label

BandsLabelled(f) ==
  Cardinality({i \in 1..Len(fig.bandtexts) : fig.bandtexts[i].s = <<"F">> \o Str(f)})

C2_BandIffBothRows ==
  (call.fn = "_add_fraction_highlighting" /\ call.akta_type \in {"small", "large"})
    => LET fractions == KwValue("fractions")
       IN /\ call.exc = None
          /\ Len(fig.spans) = Len(fig.bandtexts)
          /\ \A f \in 1..(MaxFrac + 1) :
               BandsLabelled(f) =
                 IF HasRow(VariantLabel(f)) /\ HasRow(VariantLabel(f + 1))
                 THEN Count(fractions, f) ELSE 0

(* a list whose first fraction is skipped and whose second gets its band *)
C2_Witness ==
  /\ call.fn = "_add_fraction_highlighting"
  /\ call.akta_type = "small"
  /\ Len(KwValue("fractions")) = 2
  /\ ~HasRow(VariantLabel(KwValue("fractions")[1] + 1))
  /\ Len(fig.spans) = 1
  /\ fig.bandtexts[1].s = <<"F">> \o Str(KwValue("fractions")[2])

(* C3: _add_fraction_markers draws as many ticks, and as many tick labels,
   as there are rows with both Fraction_vol and Fraction present, less those
   of them whose label is an excluded number in the variant's format or is
   Waste or Frac *)
ValidRows == {i \in 1..Len(trace) :
                trace[i].Fraction_vol # NaN /\ trace[i].Fraction # NaNLabel}

ExcludedLabels ==
  {VariantLabel(KwValue("del_fraction_markings")[k]) :
     k \in 1..Len(KwValue("del_fraction_markings"))}
  \cup {<<"W", "a", "s", "t", "e">>, <<"F", "r", "a", "c">>}

C3_TickCount ==
  (call.fn = "_add_fraction_markers" /\ call.akta_type \in {"small", "large"})
    => LET dropped == {i \in ValidRows : trace[i].Fraction \in ExcludedLabels}
       IN /\ Len(fig.ticks) = Cardinality(ValidRows) - Cardinality(dropped)
          /\ Len(fig.ticktexts) = Len(fig.ticks)

(* two valid rows, one excluded by the list, one reserved or kept *)
C3_Witness ==
  /\ call.fn = "_add_fraction_markers"
  /\ call.akta_type = "large"
  /\ Cardinality(ValidRows) = 2
  /\ \E i \in ValidRows :
       trace[i].Fraction \in {VariantLabel(KwValue("del_fraction_markings")[k]) :
                                k \in 1..Len(KwValue("del_fraction_markings"))}
  /\ Len(fig.ticks) = 1

(* C4: a call of plot makes as many secondary axes as flags are true, and its
   legend is the UV line and one entry per enabled overlay *)
C4_PlotLegend ==
  call.fn = "plot"
    => LET b == Flag("buffer")
           s == Flag("salt")
       IN /\ Len(fig.axes) = (IF b THEN 1 ELSE 0) + (IF s THEN 1 ELSE 0)
          /\ Len(fig.legend) = 1 + Len(fig.axes)
          /\ {fig.legend[i] : i \in 1..Len(fig.legend)} =
               {UVLabel} \cup (IF b THEN {BufferLabel} ELSE {})
                         \cup (IF s THEN {CondLabel} ELSE {})

(* the part of C4 that is about _add_secondary_axes alone, called directly *)
SecondaryAxesPerFlag ==
  call.fn = "_add_secondary_axes"
    => LET b == Flag("buffer")
           s == Flag("salt")
       IN /\ Len(fig.axes) = (IF b THEN 1 ELSE 0) + (IF s THEN 1 ELSE 0)
          /\ Len(call.lines) = Len(fig.axes)
          /\ {call.lines[i] : i \in 1..Len(call.lines)} =
               (IF b THEN {BufferLabel} ELSE {}) \cup (IF s THEN {CondLabel} ELSE {})

C6_UnknownKeyWarns ==
  (call.fn = "plot" /\ HasKw("colour"))
    => /\ InSeq(Warning("colour"), stdout)
       /\ call.configured
       /\ \A k \in KnownKeys :
            call.config[k] = IF HasKw(k) THEN KwValue(k) ELSE Defaults(MaxVolume)[k]

(* C7: the x-axis of a call of plot spans 0 to the x_lim passed, or to
   max(Volume_ml) when none is passed *)
C7_XAxisSpan ==
  call.fn = "plot"
    => fig.xlim = <<0, IF HasKw("x_lim") THEN KwValue("x_lim") ELSE MaxVolume>>

(* C8: load with an unknown akta_type, or small with an unknown file type,
   prints a warning, reads no file and returns without raising *)
InvalidLoad ==
  /\ call.fn = "load"
  /\ \/ call.akta_type \notin {"small", "large"}
     \/ /\ call.akta_type = "small"
        /\ HasKw("small_akta_filetype")
        /\ KwValue("small_akta_filetype") \notin {"csv", "asc"}

C8_InvalidLoadReturns ==
  InvalidLoad => (call.exc = None /\ call.reads = <<>> /\ Len(stdout) = 1)

(* what does hold of such a call *)
InvalidLoadRaises ==
  InvalidLoad => (call.exc = "UnboundLocalError" /\ call.reads = <<>>
                  /\ Len(stdout) = 1 /\ ~df.loaded)

(* C9: the one read of load is fixed by (akta_type, small_akta_filetype):
   small+csv name.csv comma UTF-8, small+asc name.asc tab UTF-8, large
   name.csv tab UTF-16, each skipping 3 lines with no header row; the file
   type defaults to csv, and with large it changes nothing and prints
   nothing; a read that succeeds returns the data rows, header lines gone *)
FileType == IF HasKw("small_akta_filetype") THEN KwValue("small_akta_filetype")
            ELSE "csv"

ExpectedRead(path, sep, encoding) ==
  << [path |-> path, sep |-> sep, encoding |-> encoding, skiprows |-> 3,
      header |-> None] >>

C9_ReadDispatch ==
  call.fn = "load"
    => /\ (call.akta_type = "small" /\ FileType = "csv")
            => call.reads = ExpectedRead(call.name \o ".csv", ",", "utf_8")
       /\ (call.akta_type = "small" /\ FileType = "asc")
            => call.reads = ExpectedRead(call.name \o ".asc", "\t", "utf_8")
       /\ call.akta_type = "large"
            => /\ call.reads = ExpectedRead(call.name \o ".csv", "\t", "utf_16")
               /\ stdout = <<>>
       /\ call.exc = None
            => /\ df.loaded
               /\ df.rows = [i \in 1..Len(trace) |-> RawRow(trace[i])]

(* the asc export loaded, and the large export loaded with a file type that
   small would reject *)
C9_Witness ==
  /\ call.fn = "load"
  /\ call.exc = None
  /\ \/ call.akta_type = "small" /\ FileType = "asc"
     \/ call.akta_type = "large" /\ FileType = "txt"

(* C10: a call of plot draws one marker and one annotation per peak the
   detector returned when mark_maxima is true, at that row's volume and
   amplitude, and none when it is false *)
C10_PlotMarksPeaks ==
  call.fn = "plot"
    => IF Flag("mark_maxima")
       THEN /\ Len(fig.markers) = Len(call.peaks)
            /\ Len(fig.annotations) = Len(call.peaks)
            /\ \A i \in 1..Len(call.peaks) :
                 /\ fig.markers[i].x = trace[call.peaks[i] + 1].Volume_ml
                 /\ fig.markers[i].y = trace[call.peaks[i] + 1].mAU
       ELSE fig.markers = <<>> /\ fig.annotations = <<>>

(* the part of C10 that is about _add_maxima_markers alone, called directly *)
MaximaMarkerPerPeak ==
  call.fn = "_add_maxima_markers"
    => /\ Len(fig.markers) = Len(call.peaks)
       /\ Len(fig.annotations) = Len(call.peaks)
       /\ \A i \in 1..Len(call.peaks) :
            LET row == trace[call.peaks[i] + 1]
            IN /\ fig.markers[i].x = row.Volume_ml
               /\ fig.markers[i].y = row.mAU
               /\ KwValue("maxima_type") = "mL"
                    => fig.annotations[i].text = Fmt1(row.Volume_ml) \o <<" ", "m", "L">>
               /\ KwValue("maxima_type") = "mAU"
                    => fig.annotations[i].text = Fmt1(row.mAU) \o <<" ", "m", "A", "U">>

(* every call of plot ends at its first statement: the defaults dict reads
   the local data, which line 83 binds only later *)
PlotNeverStarts ==
  call.fn = "plot"
    => /\ call.exc = "UnboundLocalError" /\ call.at = 57
       /\ ~fig.created /\ written = {} /\ stdout = <<>>

====
